---- MODULE Spec2Model ----
(***************************************************************************)
(* A model of duviz: the line-record tree of DirectoryTree.py (AddFolder,  *)
(* Accum) as driven by duviz2.py, and the live-traversal tree of duviz.py  *)
(* (import_path, AddFile, AddDir, _build_du_tree, block_display).          *)
(*                                                                         *)
(* Python strings are modelled as sequences of one-character strings, so   *)
(* that str.split, int(), os.path.split and path_split are computed the    *)
(* way the code computes them.  A tree is a function from a node's key     *)
(* path (the sequence of dictionary keys leading to it from the root) to   *)
(* the node's fields; the dictionary of sub-nodes is kept as the sequence  *)
(* of its keys in insertion order, which is the order Python iterates in.  *)
(***************************************************************************)
EXTENDS Integers, Sequences, FiniteSets, TLC

VARIABLES
    tree,     \* DirectoryTree rooted at RootName: key path -> node fields
    lines,    \* the du lines handed to AddFolder so far, in order
    accums,   \* number of dir_tree.Accum() calls made so far
    err,      \* "" or the name of the exception that ended the run
    gClusterSize, \* duviz.py's global: the allocation unit, or None
    ntree,    \* DirectoryTreeNode tree rooted at RootName: key path -> fields
    stack,    \* the active calls of _build_du_tree, innermost last
    phase,    \* "scan" while the tree is built, "built", then "shown"
    shown,    \* the block_display calls made: key path -> width, depth, spans
    nerr,     \* "" or the name of the exception duviz.py ended with
    imported  \* the import_path calls of _build_inode_count_tree and their results

treeVars == <<tree, lines, accums, err>>

nodeVars == <<gClusterSize, ntree, stack, phase, shown, nerr, imported>>

vars == <<tree, lines, accums, err, gClusterSize, ntree, stack, phase, shown, nerr, imported>>

(***************************************************************************)
(* Bounds                                                                  *)
(***************************************************************************)
MaxLines == 3
MaxAccum == 2
MaxEntries == 4
MaxDepth == 2
MaxImports == 3

(***************************************************************************)
(* Strings                                                                 *)
(***************************************************************************)
Sep == "/"
Bar == "|"

Digits == <<"0", "1", "2", "3", "4", "5", "6", "7", "8", "9">>

DigitVal(c) == CHOOSE d \in 0..9 : Digits[d + 1] = c

IsDigit(c) == \E d \in 0..9 : Digits[d + 1] = c

RECURSIVE NatToStr(_)
NatToStr(n) ==
    IF n < 10 THEN <<Digits[n + 1]>>
    ELSE NatToStr(n \div 10) \o <<Digits[(n % 10) + 1]>>

\* str(n) as '{}'.format(n) renders an integer
IntToStr(n) == IF n < 0 THEN <<"-">> \o NatToStr(0 - n) ELSE NatToStr(n)

RECURSIVE DigitsToNat(_)
DigitsToNat(s) ==
    IF s = <<>> THEN 0
    ELSE 10 * DigitsToNat(SubSeq(s, 1, Len(s) - 1)) + DigitVal(s[Len(s)])

AllDigits(s) == Len(s) > 0 /\ \A i \in 1..Len(s) : IsDigit(s[i])

\* whether int(s) succeeds (otherwise it raises ValueError), for strings
\* without blanks, underscores or a plus sign; float(s) agrees with int(s) on
\* these strings, and the timestamps of the lines below are whole numbers
IsIntStr(s) ==
    IF Len(s) > 0 /\ s[1] = "-" THEN AllDigits(Tail(s)) ELSE AllDigits(s)

\* int(s) for a string that int() accepts
StrToInt(s) ==
    IF s[1] = "-" THEN 0 - DigitsToNat(Tail(s)) ELSE DigitsToNat(s)

\* s.split(sep): the parts between the separators, empty parts kept
RECURSIVE SplitFrom(_, _, _, _)
SplitFrom(s, sep, i, cur) ==
    IF i > Len(s) THEN <<cur>>
    ELSE IF s[i] = sep THEN <<cur>> \o SplitFrom(s, sep, i + 1, <<>>)
    ELSE SplitFrom(s, sep, i + 1, Append(cur, s[i]))

Split(s, sep) == SplitFrom(s, sep, 1, <<>>)

\* s.rstrip(os.path.sep)
RECURSIVE RStripSep(_)
RStripSep(s) ==
    IF Len(s) > 0 /\ s[Len(s)] = Sep THEN RStripSep(SubSeq(s, 1, Len(s) - 1))
    ELSE s

AllSeps(s) == \A i \in 1..Len(s) : s[i] = Sep

\* s.rfind('/') + 1
RFindSep(s) ==
    LET hits == {i \in 1..Len(s) : s[i] = Sep}
    IN  IF hits = {} THEN 0 ELSE CHOOSE i \in hits : \A j \in hits : j <= i

\* os.path.split (posixpath)
OsPathSplit(p) ==
    LET i == RFindSep(p)
        head == SubSeq(p, 1, i)
        tail == SubSeq(p, i + 1, Len(p))
    IN  [head |-> IF head # <<>> /\ ~AllSeps(head) THEN RStripSep(head) ELSE head,
         tail |-> tail]

RECURSIVE PathSplitLoop(_, _, _)
PathSplitLoop(path, base, items) ==
    IF path = base THEN <<path>> \o items
    ELSE LET sp == OsPathSplit(path)
             items1 == IF sp.tail # <<>> THEN <<sp.tail>> \o items ELSE items
         IN  IF sp.head = <<>> THEN items1
             ELSE IF sp.head = <<Sep>> THEN <<sp.head>> \o items1
             ELSE PathSplitLoop(sp.head, base, items1)

\* path_split that leaves a trailing separator on the base
path_splitKeepsSep(path, base) == PathSplitLoop(path, base, <<>>)

\* path_split(path, base): the list of path components, up to the base
path_split(path, base) ==
    PathSplitLoop(path,
                  IF Len(base) > 0 /\ base[Len(base)] = Sep THEN RStripSep(base) ELSE base,
                  <<>>)

\* a Python slice lst[1:]
DropFirst(s) == SubSeq(s, 2, Len(s))

\* a Python index lst[-1]
Last(s) == s[Len(s)]

\* the sum of the values of a function with a finite domain
RECURSIVE SumFn(_)
SumFn(f) ==
    IF DOMAIN f = {} THEN 0
    ELSE LET x == CHOOSE x \in DOMAIN f : TRUE
         IN  f[x] + SumFn([y \in DOMAIN f \ {x} |-> f[y]])

(***************************************************************************)
(* DirectoryTree (DirectoryTree.py)                                        *)
(***************************************************************************)
RootKey == <<>>

\* DirectoryTree.__init__
NewTree(name) ==
    [name |-> name, subnodes |-> <<>>,
     totFold |-> 0, myCount |-> 0, totCount |-> 0,
     mySize |-> 0, myAlloc |-> 0, totSize |-> 0, totAlloc |-> 0,
     maxFileSize |-> -1, maxFileName |-> <<>>,
     oldFileDate |-> -1, oldFileName |-> <<>>,
     maxFoldSize |-> -1, maxFoldName |-> <<>>]

InSeq(x, s) == \E i \in 1..Len(s) : s[i] = x

\* cursor.subnodes[component] = DirectoryTree(component)
AddSubnode(t, k, component) ==
    [q \in DOMAIN t \cup {Append(k, component)} |->
        IF q = Append(k, component) THEN NewTree(component)
        ELSE IF q = k THEN [t[k] EXCEPT !.subnodes = Append(@, component)]
        ELSE t[q]]

\* the walk down relPath from the cursor, creating the missing subnodes
RECURSIVE WalkTree(_, _, _)
WalkTree(t, cursor, relPath) ==
    IF relPath = <<>> THEN [tree |-> t, cursor |-> cursor]
    ELSE LET component == Head(relPath)
             t1 == IF InSeq(component, t[cursor].subnodes) THEN t
                   ELSE AddSubnode(t, cursor, component)
         IN  WalkTree(t1, Append(cursor, component), Tail(relPath))

\* the assignments of AddFolder to the cursor, in program order; an int()
\* or float() that raises ValueError leaves the earlier assignments in place
StoreStats(n, parts) ==
    IF ~IsIntStr(parts[1]) THEN [node |-> n, err |-> "ValueError"]
    ELSE LET n1 == [n EXCEPT !.myCount = StrToInt(parts[1])]
    IN IF ~IsIntStr(parts[2]) THEN [node |-> n1, err |-> "ValueError"]
    ELSE LET n2 == [n1 EXCEPT !.mySize = StrToInt(parts[2])]
    IN IF ~IsIntStr(parts[3]) THEN [node |-> n2, err |-> "ValueError"]
    ELSE LET n3 == [n2 EXCEPT !.myAlloc = StrToInt(parts[3]),
                              !.totCount = StrToInt(parts[1]),
                              !.totSize = StrToInt(parts[2]),
                              !.totAlloc = StrToInt(parts[3]),
                              !.totFold = @ + 1]
    IN IF ~IsIntStr(parts[5]) THEN [node |-> n3, err |-> "ValueError"]
    ELSE LET n4 == [n3 EXCEPT !.maxFileSize = StrToInt(parts[5]),
                              !.maxFileName = parts[4]]
    IN IF ~IsIntStr(parts[7]) THEN [node |-> n4, err |-> "ValueError"]
    ELSE [node |-> [n4 EXCEPT !.oldFileDate = StrToInt(parts[7]),
                              !.oldFileName = parts[6]],
          err |-> ""]

\* DirectoryTree.AddFolder(du_line) on the root of t: the tree afterwards, the
\* exception raised ("" if none) and the key path of the returned cursor.
\* The statement `exit` under the field-count test names a builtin without
\* calling it, so control continues with parts[7] whatever the count is.
AddFolder(t, du_line) ==
    LET parts == Split(du_line, Bar)
    IN  IF Len(parts) < 8
        THEN [tree |-> t, err |-> "IndexError", cursor |-> RootKey]
        ELSE LET relPath == DropFirst(path_split(parts[8], t[RootKey].name))
                 w == WalkTree(t, RootKey, relPath)
                 st == StoreStats(w.tree[w.cursor], parts)
             IN  [tree |-> [w.tree EXCEPT ![w.cursor] = st.node],
                  err |-> st.err, cursor |-> w.cursor]

\* AccumChild with the allocated total taken from the sub-node's size
AccumChildAllocFromSize(s, c) ==
    LET s1 == [s EXCEPT !.totCount = @ + c.totCount,
                        !.totAlloc = @ + c.totSize,
                        !.totSize = @ + c.totSize,
                        !.totFold = @ + c.totFold]
        s2 == IF c.maxFileSize > s1.maxFileSize
              THEN [s1 EXCEPT !.maxFileName = c.maxFileName,
                              !.maxFileSize = c.maxFileSize]
              ELSE s1
    IN  IF c.oldFileDate < s2.oldFileDate
        THEN [s2 EXCEPT !.oldFileName = c.oldFileName,
                        !.oldFileDate = c.oldFileDate]
        ELSE s2

\* AccumChild with the largest file replaced on an equal size as well
AccumChildTieReplaces(s, c) ==
    LET s1 == [s EXCEPT !.totCount = @ + c.totCount,
                        !.totAlloc = @ + c.totAlloc,
                        !.totSize = @ + c.totSize,
                        !.totFold = @ + c.totFold]
        s2 == IF c.maxFileSize >= s1.maxFileSize
              THEN [s1 EXCEPT !.maxFileName = c.maxFileName,
                              !.maxFileSize = c.maxFileSize]
              ELSE s1
    IN  IF c.oldFileDate < s2.oldFileDate
        THEN [s2 EXCEPT !.oldFileName = c.oldFileName,
                        !.oldFileDate = c.oldFileDate]
        ELSE s2

\* AccumChild with the largest file taken from the sub-node without comparing
AccumChildLastWins(s, c) ==
    LET s1 == [s EXCEPT !.totCount = @ + c.totCount,
                        !.totAlloc = @ + c.totAlloc,
                        !.totSize = @ + c.totSize,
                        !.totFold = @ + c.totFold,
                        !.maxFileName = c.maxFileName,
                        !.maxFileSize = c.maxFileSize]
    IN  IF c.oldFileDate < s1.oldFileDate
        THEN [s1 EXCEPT !.oldFileName = c.oldFileName,
                        !.oldFileDate = c.oldFileDate]
        ELSE s1

\* what one turn of the loop of Accum does to self for the sub-node c, which
\* has been accumulated already
AccumChild(s, c) ==
    LET s1 == [s EXCEPT !.totCount = @ + c.totCount,
                        !.totAlloc = @ + c.totAlloc,
                        !.totSize = @ + c.totSize,
                        !.totFold = @ + c.totFold]
        s2 == IF c.maxFileSize > s1.maxFileSize
              THEN [s1 EXCEPT !.maxFileName = c.maxFileName,
                              !.maxFileSize = c.maxFileSize]
              ELSE s1
    IN  IF c.oldFileDate < s2.oldFileDate
        THEN [s2 EXCEPT !.oldFileName = c.oldFileName,
                        !.oldFileDate = c.oldFileDate]
        ELSE s2

\* the loop of Accum over the subnodes of self, from the i-th on
RECURSIVE AccumLoop(_, _, _)
RECURSIVE Accum(_, _)
AccumLoop(t, self, i) ==
    IF i > Len(t[self].subnodes) THEN t
    ELSE LET node == Append(self, t[self].subnodes[i])
             t1 == Accum(t, node)
         IN  AccumLoop([t1 EXCEPT ![self] = AccumChild(t1[self], t1[node])], self, i + 1)

\* DirectoryTree.Accum on node self of t
Accum(t, self) == AccumLoop(t, self, 1)

(***************************************************************************)
(* The du lines (du.py) and the driver (duviz2.py)                         *)
(***************************************************************************)
\* '{1}|{2}|{5}|{3}|{4}|{6}|{7}|{0}'.format(root, rootFileCount, rootFileSize,
\*     largeF[0], largeF[1], rootAllocSize, oldF, oldFD)
FormatLine(root, count, size, largeFN, largeFSize, alloc, oldF, oldFD) ==
    IntToStr(count) \o <<Bar>> \o IntToStr(size) \o <<Bar>> \o IntToStr(alloc)
    \o <<Bar>> \o largeFN \o <<Bar>> \o IntToStr(largeFSize)
    \o <<Bar>> \o oldF \o <<Bar>> \o IntToStr(oldFD) \o <<Bar>> \o root

\* the directory handed to DirectoryTree(directory)
RootName == <<Sep, "r">>

PathA == <<Sep, "r", Sep, "a">>
PathB == <<Sep, "r", Sep, "a", Sep, "b">>
PathC == <<Sep, "r", Sep, "c">>
PathX == <<Sep, "x">>

\* lines with the eight fields of du.py
GoodLines ==
    { FormatLine(RootName, 1, 10, <<"f">>, 10, 12, <<"f">>, 7),
      FormatLine(PathA, 2, 30, <<"g">>, 20, 32, <<"h">>, 5),
      FormatLine(PathA, 0, 0, <<>>, -1, 0, <<>>, -1),
      FormatLine(PathB, 1, 20, <<"h">>, 20, 24, <<"h">>, 3),
      FormatLine(PathC, 1, 20, <<"k">>, 20, 20, <<"k">>, 9),
      FormatLine(PathX, 1, 10, <<"f">>, 10, 12, <<"f">>, 7) }

\* lines with another number of fields: one cut after five fields, one with a
\* ninth field, one whose largest-file name holds a bar
BadLines ==
    { <<"1", Bar, "1", "0", Bar, "1", "2", Bar, "f", Bar, "1", "0">>,
      FormatLine(PathC \o <<Bar, "z">>, 1, 20, <<"k">>, 20, 20, <<"k">>, 9),
      FormatLine(PathA, 2, 30, <<"g", Bar, "g">>, 20, 32, <<"h">>, 5) }

LineSet == GoodLines \cup BadLines

(***************************************************************************)
(* DirectoryTreeNode (duviz.py)                                            *)
(***************************************************************************)
\* Python's None in a size field and in gClusterSize, encoded as a number
\* that no size and no allocation unit takes
None == -1

\* AllocatedSize(size): math.ceil(size/gClusterSize) * gClusterSize, or 0
\* when no allocation unit is known
AllocatedSize(size, cluster) ==
    IF cluster # None THEN ((size + cluster - 1) \div cluster) * cluster ELSE 0

\* DirectoryTreeNode.__init__
NewNode(name) ==
    [name |-> name, size |-> None, mySize |-> None, fileCount |-> 0,
     myAllocSize |-> None, allocSize |-> None, subnodes |-> <<>>]

\* cursor._subnodes[component] = DirectoryTreeNode(component)
AddSubnodeNode(t, k, component) ==
    [q \in DOMAIN t \cup {Append(k, component)} |->
        IF q = Append(k, component) THEN NewNode(component)
        ELSE IF q = k THEN [t[k] EXCEPT !.subnodes = Append(@, component)]
        ELSE t[q]]

\* the walk of import_path down the relative path, creating missing subnodes
RECURSIVE WalkNodes(_, _, _)
WalkNodes(t, cursor, relPath) ==
    IF relPath = <<>> THEN [tree |-> t, cursor |-> cursor]
    ELSE LET component == Head(relPath)
             t1 == IF InSeq(component, t[cursor].subnodes) THEN t
                   ELSE AddSubnodeNode(t, cursor, component)
         IN  WalkNodes(t1, Append(cursor, component), Tail(relPath))

\* DirectoryTreeNode.import_path(path, size) on the root of t: the tree
\* afterwards, the exception raised ("" if none) and the returned cursor
import_path(t, path, size, cluster) ==
    LET w == WalkNodes(t, RootKey, DropFirst(path_split(path, t[RootKey].name)))
        c == w.tree[w.cursor]
    IN  IF c.size # None
        THEN [tree |-> w.tree, err |-> "AssertionError", cursor |-> w.cursor]
        ELSE [tree |-> [w.tree EXCEPT ![w.cursor] =
                          [c EXCEPT !.size = size,
                                    !.mySize = size,
                                    !.allocSize = AllocatedSize(size, cluster),
                                    !.myAllocSize = AllocatedSize(size, cluster)]],
              err |-> "", cursor |-> w.cursor]

\* DirectoryTreeNode.AddFile(filename, filesize) on node n
AddFile(n, filesize, cluster) ==
    [n EXCEPT !.size = @ + filesize,
              !.mySize = @ + filesize,
              !.fileCount = @ + 1,
              !.allocSize = @ + AllocatedSize(filesize, cluster),
              !.myAllocSize = @ + AllocatedSize(filesize, cluster)]

\* AddDir that counts the sub-tree into the node's own size as well
AddDirIntoOwn(n, sub_tree) ==
    [n EXCEPT !.size = @ + sub_tree.size,
              !.mySize = @ + sub_tree.size,
              !.allocSize = @ + sub_tree.allocSize]

\* DirectoryTreeNode.AddDir(sub_tree) on node n
AddDir(n, sub_tree) ==
    [n EXCEPT !.size = @ + sub_tree.size,
              !.allocSize = @ + sub_tree.allocSize]

\* recalculate_own_sizes_to_total_sizes on node k: the subnodes are
\* recalculated in dictionary order, then their sum is added to self.size,
\* which raises TypeError when the size of k is still None
RECURSIVE RecalcLoop(_, _, _, _)
RECURSIVE recalculate(_, _)
RecalcLoop(t, k, i, sum) ==
    IF i > Len(t[k].subnodes) THEN [tree |-> t, err |-> "", total |-> sum]
    ELSE LET r == recalculate(t, Append(k, t[k].subnodes[i]))
         IN  IF r.err # "" THEN r
             ELSE RecalcLoop(r.tree, k, i + 1, sum + r.total)

recalculate(t, k) ==
    LET r == RecalcLoop(t, k, 1, 0)
    IN  IF r.err # "" THEN r
        ELSE IF t[k].size = None THEN [r EXCEPT !.err = "TypeError"]
        ELSE [tree |-> [r.tree EXCEPT ![k].size = t[k].size + r.total],
              err |-> "", total |-> t[k].size + r.total]

\* os.path.join(directory, athing)
PathJoin(directory, athing) ==
    IF directory # <<>> /\ directory[Len(directory)] = Sep THEN directory \o athing
    ELSE directory \o <<Sep>> \o athing

\* the order of characters and of strings that sorted() uses
Alphabet == <<Bar, Sep, "a", "b", "c", "f", "g", "h", "k", "r", "x", "z">>

CharOrd(c) == CHOOSE i \in 1..Len(Alphabet) : Alphabet[i] = c

RECURSIVE StrLess(_, _)
StrLess(a, b) ==
    IF b = <<>> THEN FALSE
    ELSE IF a = <<>> THEN TRUE
    ELSE IF Head(a) # Head(b) THEN CharOrd(Head(a)) < CharOrd(Head(b))
    ELSE StrLess(Tail(a), Tail(b))

\* sorted(self._subnodes.values(), key=operator.attrgetter('name')), as keys
RECURSIVE SortNames(_)
SortNames(names) ==
    IF names = {} THEN <<>>
    ELSE LET m == CHOOSE x \in names : \A y \in names \ {x} : StrLess(x, y)
         IN  <<m>> \o SortNames(names \ {m})

SubdirsByName(t, k) == SortNames({t[k].subnodes[i] : i \in 1..Len(t[k].subnodes)})

\* CurrPos rounding to the nearest column instead of down
CurrPosRounded(width, cumsize, size) == (2 * width * cumsize + size) \div (2 * size)

\* int(float(width * cumsize) / self.size) for a size above 0; the double
\* division yields the exact integer part as long as width * size < 2^53
CurrPos(width, cumsize, size) == (width * cumsize) \div size

\* block_display(width, max_depth) on node k.  acc holds the exception raised
\* so far and, for each node block_display was called on, the width and depth
\* it was given, whether it rendered anything and the spans it handed on.
RECURSIVE BlockLoop(_, _, _, _, _, _, _, _)
RECURSIVE block_display(_, _, _, _, _)
BlockLoop(t, k, width, max_depth, subdirs, cumsize, lastpos, acc) ==
    IF subdirs = <<>> \/ acc.err # "" THEN acc
    ELSE LET sd == Append(k, Head(subdirs))
             cumsize1 == cumsize + t[sd].size
         IN  IF t[k].size = 0
             THEN [acc EXCEPT !.err = "ZeroDivisionError"]
             ELSE LET currpos == CurrPos(width, cumsize1, t[k].size)
                      acc1 == [acc EXCEPT !.calls[k].spans = Append(@, currpos - lastpos)]
                      acc2 == block_display(t, sd, currpos - lastpos, max_depth - 1, acc1)
                  IN  BlockLoop(t, k, width, max_depth, Tail(subdirs), cumsize1, currpos, acc2)

block_display(t, k, width, max_depth, acc) ==
    LET call == [width |-> width, max_depth |-> max_depth, spans |-> <<>>,
                 rendered |-> ~(width < 1 \/ max_depth < 0)]
        acc0 == [acc EXCEPT !.calls = [q \in DOMAIN acc.calls \cup {k} |->
                                          IF q = k THEN call ELSE acc.calls[q]]]
    IN  IF width < 1 \/ max_depth < 0 THEN acc0
        ELSE BlockLoop(t, k, width, max_depth, SubdirsByName(t, k), 0, 0, acc0)

NoCalls == [err |-> "", calls |-> [q \in {} |-> 0]]

(***************************************************************************)
(* The live traversal (build_du_tree, _build_du_tree) and its display      *)
(***************************************************************************)
\* what os.listdir and os.path.getsize can return: sub-directory names and
\* file sizes
DirNames == {<<"a">>, <<"b">>}

FileSizes == {0, 100, 300}

ClusterSizes == {None, 8}

Widths == {1, 7, 40}

Depths == {0, 1, 5}

\* the entries met so far: the files and the sub-directories
EntriesSeen == SumFn([k \in DOMAIN ntree |-> ntree[k].fileCount]) + Cardinality(DOMAIN ntree) - 1

\* duviz2.py: dir_tree = DirectoryTree(directory), nothing ingested yet
Init ==
    /\ tree = [k \in {RootKey} |-> NewTree(RootName)]
    /\ lines = <<>>
    /\ accums = 0
    /\ err = ""
    /\ gClusterSize = None
    /\ ntree = [k \in {RootKey} |-> NewNode(RootName)]
    /\ stack = <<>>
    /\ phase = "start"
    /\ shown = NoCalls.calls
    /\ nerr = ""
    /\ imported = <<>>

\* one turn of `for line in lines: dir_tree.AddFolder(line)`; an exception
\* leaves the loop and ends the run
DoAddFolder(line) ==
    /\ err = ""
    /\ accums = 0
    /\ Len(lines) < MaxLines
    /\ LET r == AddFolder(tree, line)
       IN  /\ tree' = r.tree
           /\ err' = r.err
    /\ lines' = Append(lines, line)
    /\ UNCHANGED accums
    /\ UNCHANGED nodeVars

\* dir_tree.Accum()
DoAccum ==
    /\ err = ""
    /\ accums < MaxAccum
    /\ tree' = Accum(tree, RootKey)
    /\ accums' = accums + 1
    /\ UNCHANGED <<lines, err>>
    /\ UNCHANGED nodeVars

Next ==
    \/ \E line \in LineSet : DoAddFolder(line)
    \/ DoAccum

Spec == Init /\ [][Next]_vars

\* the entry of a call _build_du_tree(directory, dir_tree):
\* me = dir_tree.import_path(directory, 0)
EnterDir(directory) ==
    LET r == import_path(ntree, directory, 0, gClusterSize)
    IN  /\ ntree' = r.tree
        /\ nerr' = r.err
        /\ stack' = IF r.err = "" THEN Append(stack, [directory |-> directory, me |-> r.cursor])
                    ELSE stack

\* build_du_tree(directory): the outermost call
StartBuild ==
    /\ phase = "start"
    /\ nerr = ""
    /\ EnterDir(RootName)
    /\ phase' = "scan"
    /\ UNCHANGED <<gClusterSize, shown, imported>>
    /\ UNCHANGED treeVars

\* the listing yields a file: me.AddFile(athing, os.path.getsize(fullpath))
ListFile(filesize) ==
    /\ phase = "scan"
    /\ nerr = ""
    /\ stack # <<>>
    /\ EntriesSeen < MaxEntries
    /\ ntree' = [ntree EXCEPT ![Last(stack).me] = AddFile(@, filesize, gClusterSize)]
    /\ UNCHANGED <<gClusterSize, stack, phase, shown, nerr, imported>>
    /\ UNCHANGED treeVars

\* the listing yields a sub-directory: the recursive call is entered
ListDir(athing) ==
    /\ phase = "scan"
    /\ nerr = ""
    /\ stack # <<>>
    /\ EntriesSeen < MaxEntries
    /\ Len(stack) <= MaxDepth
    /\ ~InSeq(athing, ntree[Last(stack).me].subnodes)
    /\ EnterDir(PathJoin(Last(stack).directory, athing))
    /\ UNCHANGED <<gClusterSize, phase, shown, imported>>
    /\ UNCHANGED treeVars

\* the listing is exhausted: `return me`, and in the caller me.AddDir(sub_tree)
ReturnDir ==
    /\ phase = "scan"
    /\ nerr = ""
    /\ stack # <<>>
    /\ LET rest == SubSeq(stack, 1, Len(stack) - 1)
       IN  /\ stack' = rest
           /\ IF rest = <<>>
              THEN /\ phase' = "built"
                   /\ UNCHANGED ntree
              ELSE /\ ntree' = [ntree EXCEPT ![Last(rest).me] = AddDir(@, ntree[Last(stack).me])]
                   /\ UNCHANGED phase
    /\ UNCHANGED <<gClusterSize, shown, nerr, imported>>
    /\ UNCHANGED treeVars

\* tree.block_display(width, max_depth=max_depth) on the tree that was built
DoBlockDisplay(width, max_depth) ==
    /\ phase = "built"
    /\ nerr = ""
    /\ LET r == block_display(ntree, RootKey, width, max_depth, NoCalls)
       IN  /\ shown' = r.calls
           /\ nerr' = r.err
    /\ phase' = "shown"
    /\ UNCHANGED <<gClusterSize, ntree, stack, imported>>
    /\ UNCHANGED treeVars

NextNode ==
    \/ StartBuild
    \/ \E filesize \in FileSizes : ListFile(filesize)
    \/ \E athing \in DirNames : ListDir(athing)
    \/ ReturnDir
    \/ \E width \in Widths, max_depth \in Depths : DoBlockDisplay(width, max_depth)

\* duviz.py: getClusterSize() and dir_tree = DirectoryTreeNode(directory)
InitNode ==
    /\ tree = [k \in {RootKey} |-> NewTree(RootName)]
    /\ lines = <<>>
    /\ accums = 0
    /\ err = ""
    /\ gClusterSize \in ClusterSizes
    /\ ntree = [k \in {RootKey} |-> NewNode(RootName)]
    /\ stack = <<>>
    /\ phase = "start"
    /\ shown = NoCalls.calls
    /\ nerr = ""
    /\ imported = <<>>

SpecNode == InitNode /\ [][NextNode]_vars

(***************************************************************************)
(* The inode-count tree (_build_inode_count_tree)                          *)
(***************************************************************************)
\* the directory the tree is built for, as given: with or without a trailing
\* separator
ImportRoots == {RootName, Append(RootName, Sep)}

\* the block headers of the listing and the inode counts of the blocks
ImportPaths == {RootName, Append(RootName, Sep), PathA, PathB, PathC}

ImportCounts == {1, 5}

\* tree = DirectoryTreeNode(directory)
InitImport ==
    /\ tree = [k \in {RootKey} |-> NewTree(RootName)]
    /\ lines = <<>>
    /\ accums = 0
    /\ err = ""
    /\ gClusterSize = None
    /\ \E directory \in ImportRoots : ntree = [k \in {RootKey} |-> NewNode(directory)]
    /\ stack = <<>>
    /\ phase = "import"
    /\ shown = NoCalls.calls
    /\ nerr = ""
    /\ imported = <<>>

\* one block of the listing: tree.import_path(path, count)
DoImportPath(path, count) ==
    /\ phase = "import"
    /\ nerr = ""
    /\ Len(imported) < MaxImports
    /\ LET r == import_path(ntree, path, count, gClusterSize)
       IN  /\ ntree' = r.tree
           /\ nerr' = r.err
           /\ imported' = Append(imported, [path |-> path, count |-> count,
                                            node |-> r.cursor, raised |-> r.err])
    /\ UNCHANGED <<gClusterSize, stack, phase, shown>>
    /\ UNCHANGED treeVars

\* tree.recalculate_own_sizes_to_total_sizes()
DoRecalculate ==
    /\ phase = "import"
    /\ nerr = ""
    /\ LET r == recalculate(ntree, RootKey)
       IN  /\ ntree' = r.tree
           /\ nerr' = r.err
    /\ phase' = "built"
    /\ UNCHANGED <<gClusterSize, stack, shown, imported>>
    /\ UNCHANGED treeVars

NextImport ==
    \/ \E path \in ImportPaths, count \in ImportCounts : DoImportPath(path, count)
    \/ DoRecalculate

SpecImport == InitImport /\ [][NextImport]_vars

(***************************************************************************)
(* Vocabulary of the properties                                            *)
(***************************************************************************)
IsPrefix(k, q) == Len(k) <= Len(q) /\ SubSeq(q, 1, Len(k)) = k

\* the direct children of node k and the nodes of the subtree of k
Children(t, k) == {q \in DOMAIN t : Len(q) = Len(k) + 1 /\ IsPrefix(k, q)}

Subtree(t, k) == {q \in DOMAIN t : IsPrefix(k, q)}

SetMax(S) == CHOOSE x \in S : \A y \in S : y <= x

SetMin(S) == CHOOSE x \in S : \A y \in S : x <= y

\* a step that hands one more line to AddFolder
Ingests == Len(lines') = Len(lines) + 1

\* the step of the first Accum() call, and of a later one
FirstPass == accums = 0 /\ accums' = 1

LaterPass == accums >= 1 /\ accums' = accums + 1

\* the number of bar-separated fields of a line and its last field
FieldCount(line) == 1 + Cardinality({i \in 1..Len(line) : line[i] = Bar})

PathField(line) ==
    LET bars == {i \in 1..Len(line) : line[i] = Bar}
    IN  SubSeq(line, SetMax(bars \cup {0}) + 1, Len(line))

\* the path is the root's name or lies below it
UnderRoot(path) ==
    \/ path = RootName
    \/ /\ Len(path) > Len(RootName) + 1
       /\ SubSeq(path, 1, Len(RootName) + 1) = Append(RootName, Sep)

(***************************************************************************)
(* C1: after the lines are ingested and Accum() has run once, every node   *)
(* has totSize = mySize + the sum of its direct children's totSize, and    *)
(* likewise totAlloc/myAlloc and totCount/myCount.                         *)
(***************************************************************************)
C1_SumLaw ==
    accums = 1 =>
        \A k \in DOMAIN tree :
            /\ tree[k].totSize =
                 tree[k].mySize + SumFn([q \in Children(tree, k) |-> tree[q].totSize])
            /\ tree[k].totAlloc =
                 tree[k].myAlloc + SumFn([q \in Children(tree, k) |-> tree[q].totAlloc])
            /\ tree[k].totCount =
                 tree[k].myCount + SumFn([q \in Children(tree, k) |-> tree[q].totCount])

\* one pass has run over a root with files of its own, above a node that was
\* created only as an ancestor and whose child has files
C1_Witness ==
    /\ accums = 1
    /\ tree[RootKey].mySize > 0
    /\ \E k \in DOMAIN tree \ {RootKey} :
          /\ tree[k].mySize = 0 /\ tree[k].totFold = SumFn([q \in Children(tree, k) |-> tree[q].totFold])
          /\ \E q \in Children(tree, k) : tree[q].totSize > 0 /\ tree[q].totAlloc > tree[q].totSize

(***************************************************************************)
(* C2: after ingestion and one Accum() pass every node, the root and the   *)
(* nodes created only as ancestors included, has totFold = 1 + the sum of  *)
(* its direct children's totFold.                                          *)
(***************************************************************************)
C2_FolderCountLaw ==
    (accums = 1 /\ lines # <<>>) =>
        \A k \in DOMAIN tree :
            tree[k].totFold = 1 + SumFn([q \in Children(tree, k) |-> tree[q].totFold])

(***************************************************************************)
(* C3: the first Accum() pass leaves in every node the minimum of the      *)
(* oldest-file timestamps recorded in its subtree, the sentinel -1 of a    *)
(* node without files counting as no timestamp at all.                     *)
(***************************************************************************)
TrueOldest(t, k) ==
    LET dates == {t[q].oldFileDate : q \in {x \in Subtree(t, k) : t[x].oldFileDate # -1}}
    IN  IF dates = {} THEN -1 ELSE SetMin(dates)

C3_OldestLaw ==
    [][FirstPass => \A k \in DOMAIN tree : tree'[k].oldFileDate = TrueOldest(tree, k)]_vars

(***************************************************************************)
(* C4: the first Accum() pass leaves in every node a maxFileSize that is   *)
(* at least its own recorded one and at least each child's, and that is    *)
(* the maximum of the sizes recorded in its subtree; among equal sizes the *)
(* entry met first (the node's own, then its sub-nodes in order) is kept.  *)
(***************************************************************************)
TrueLargest(t, k) == SetMax({t[q].maxFileSize : q \in Subtree(t, k)})

\* the recorded largest-file entries of the subtree of k in the order the
\* pass meets them: the node's own, then those of each sub-node in turn
RECURSIVE EntriesFrom(_, _, _)
RECURSIVE Entries(_, _)
EntriesFrom(t, k, i) ==
    IF i > Len(t[k].subnodes) THEN <<>>
    ELSE Entries(t, Append(k, t[k].subnodes[i])) \o EntriesFrom(t, k, i + 1)

Entries(t, k) ==
    <<[size |-> t[k].maxFileSize, name |-> t[k].maxFileName]>> \o EntriesFrom(t, k, 1)

FirstLargest(t, k) ==
    LET es == Entries(t, k)
        i == SetMin({j \in 1..Len(es) : \A l \in 1..Len(es) : es[l].size <= es[j].size})
    IN  es[i]

C4_LargestLaw ==
    [][FirstPass =>
        \A k \in DOMAIN tree :
            /\ tree'[k].maxFileSize >= tree[k].maxFileSize
            /\ \A q \in Children(tree, k) : tree'[k].maxFileSize >= tree'[q].maxFileSize
            /\ tree'[k].maxFileSize = TrueLargest(tree, k)
            /\ tree'[k].maxFileName = FirstLargest(tree, k).name]_vars

\* one pass has run over a node without an entry of its own whose two
\* sub-nodes hold equal largest sizes under different names, and the node
\* holds the name of the sub-node met first
C4_Witness ==
    /\ accums = 1
    /\ \E k \in DOMAIN tree :
          /\ Len(tree[k].subnodes) = 2
          /\ LET c1 == tree[Append(k, tree[k].subnodes[1])]
                 c2 == tree[Append(k, tree[k].subnodes[2])]
             IN  /\ c1.maxFileSize = c2.maxFileSize
                 /\ c1.maxFileSize > 0
                 /\ c1.maxFileName # c2.maxFileName
                 /\ tree[k].maxFileSize = c1.maxFileSize
                 /\ tree[k].maxFileName = c1.maxFileName

(***************************************************************************)
(* C5: a second Accum() pass over a tree that has been accumulated leaves  *)
(* every node's totSize, totAlloc, totCount and totFold as they were.      *)
(***************************************************************************)
C5_SecondPassKeepsTotals ==
    [][LaterPass =>
        \A k \in DOMAIN tree :
            /\ tree'[k].totSize = tree[k].totSize
            /\ tree'[k].totAlloc = tree[k].totAlloc
            /\ tree'[k].totCount = tree[k].totCount
            /\ tree'[k].totFold = tree[k].totFold]_vars

\* the block_display calls that rendered a node of size above 0 with at
\* least one child
Partitioned ==
    {k \in DOMAIN shown :
        shown[k].rendered /\ ntree[k].size > 0 /\ Children(ntree, k) # {}}

ChildSizes(k) == SumFn([q \in Children(ntree, k) |-> ntree[q].size])

C7_ZeroSizeRenders ==
    (/\ phase = "shown"
     /\ ntree[RootKey].size = 0
     /\ Children(ntree, RootKey) # {}) =>
        /\ nerr = ""
        /\ \A q \in Children(ntree, RootKey) : q \in DOMAIN shown /\ shown[q].width = 0

\* a string without its trailing separators, the separator-free pieces of a
\* string, and the components of a path below a base
Stripped(p) ==
    LET ends == {i \in 0..Len(p) : \A j \in (i + 1)..Len(p) : p[j] = Sep}
    IN  SubSeq(p, 1, SetMin(ends))

Pieces(p) ==
    LET starts == {i \in 1..Len(p) : p[i] # Sep /\ (i = 1 \/ p[i - 1] = Sep)}
        EndOf(i) == SetMin({j \in i..Len(p) : j = Len(p) \/ p[j + 1] = Sep})
        Nth(n) == CHOOSE i \in starts : Cardinality({j \in starts : j < i}) = n - 1
    IN  [n \in 1..Cardinality(starts) |-> SubSeq(p, Nth(n), EndOf(Nth(n)))]

RelComponents(path, base) ==
    SubSeq(Pieces(path), Len(Pieces(base)) + 1, Len(Pieces(path)))

KeyPrefixes(rel) == {SubSeq(rel, 1, i) : i \in 1..Len(rel)}

\* a step that makes one more import_path call, the path it is given and
\* the node that path names
Imports == Len(imported') = Len(imported) + 1

ImportTarget == RelComponents(Last(imported').path, Stripped(ntree[RootKey].name))

(***************************************************************************)
(* C11: import_path walks the components of the path below the root's name *)
(* and creates exactly the missing nodes; a path whose nodes all exist     *)
(* adds no node and import_path returns the node the path names.           *)
(***************************************************************************)
C11_ExistingReturned ==
    [][(Imports /\ ImportTarget \in DOMAIN ntree) =>
          /\ DOMAIN ntree' = DOMAIN ntree
          /\ Last(imported').raised = ""
          /\ Last(imported').node = ImportTarget]_vars

(***************************************************************************)
(* C11 as amended: import_path walks the components of the path below the  *)
(* root's name (given with or without a trailing separator) and creates    *)
(* exactly the missing nodes along it, with unset sizes, and no others:    *)
(* <root>/a/b in a tree holding only the root adds exactly a and a/b; a    *)
(* path equal to the root's name arrives at the root and adds nothing; a   *)
(* path whose nodes all exist adds no node and arrives at the same node.   *)
(* import_path returns the node arrived at when its size is unset and      *)
(* raises AssertionError, changing no size, when it was set before.        *)
(***************************************************************************)
C11_InsertLaw ==
    [][Imports =>
          LET rel == ImportTarget
              call == Last(imported')
              wasSet == rel \in DOMAIN ntree /\ ntree[rel].size # None
          IN  /\ DOMAIN ntree' = DOMAIN ntree \cup KeyPrefixes(rel)
              /\ \A k \in DOMAIN ntree' \ (DOMAIN ntree \cup {rel}) :
                    ntree'[k].size = None /\ ntree'[k].name = Last(k)
              /\ \A k \in DOMAIN ntree \ {rel} : ntree'[k].size = ntree[k].size
              /\ call.node = rel
              /\ call.raised = (IF wasSet THEN "AssertionError" ELSE "")
              /\ wasSet => ntree'[rel].size = ntree[rel].size
              /\ ~wasSet => ntree'[rel].size = call.count
              /\ (DOMAIN ntree = {RootKey} /\ Stripped(call.path) = PathB) =>
                    DOMAIN ntree' = {RootKey, <<<<"a">>>>, <<<<"a">>, <<"b">>>>}
              /\ Stripped(call.path) = RootName =>
                    rel = RootKey /\ DOMAIN ntree' = DOMAIN ntree]_vars

\* under a root named with a trailing separator, a/b was inserted first,
\* then a, which existed unset and was returned, then a again, which raised
C11_Witness ==
    /\ Last(ntree[RootKey].name) = Sep
    /\ Len(imported) = 3
    /\ imported[1].path = PathB /\ imported[1].node = <<<<"a">>, <<"b">>>>
    /\ imported[2].path = PathA /\ imported[2].node = <<<<"a">>>> /\ imported[2].raised = ""
    /\ imported[3].path = PathA /\ imported[3].node = <<<<"a">>>>
    /\ imported[3].raised = "AssertionError"
    /\ DOMAIN ntree = {RootKey, <<<<"a">>>>, <<<<"a">>, <<"b">>>>}

\* the steps of the live traversal: a call of _build_du_tree returns, and
\* with it AddDir runs in the caller if there is one; AddFile runs
Returns == phase = "scan" /\ Len(stack') = Len(stack) - 1

AddsDir == Returns /\ stack' # <<>>

AddsFile == phase = "scan" /\ stack # <<>> /\ stack' = stack /\ ntree' # ntree

(***************************************************************************)
(* C12: when the call of _build_du_tree for a directory returns, its node  *)
(* and every node below it have size = mySize + the sum of the direct      *)
(* children's size and allocSize = myAllocSize + the sum of the direct     *)
(* children's allocSize; AddFile adds the file's size to size and mySize,  *)
(* AddDir adds the sub-tree's size and allocSize to the totals only and    *)
(* leaves mySize, myAllocSize and fileCount as they were.                  *)
(***************************************************************************)
C12_LiveTotals ==
    [][/\ Returns =>
            \A k \in Subtree(ntree', Last(stack).me) :
                /\ ntree'[k].size =
                     ntree'[k].mySize + SumFn([q \in Children(ntree', k) |-> ntree'[q].size])
                /\ ntree'[k].allocSize =
                     ntree'[k].myAllocSize
                       + SumFn([q \in Children(ntree', k) |-> ntree'[q].allocSize])
       /\ AddsFile =>
            LET me == Last(stack).me
            IN  /\ ntree'[me].size - ntree[me].size \in FileSizes
                /\ ntree'[me].mySize - ntree[me].mySize = ntree'[me].size - ntree[me].size
                /\ ntree'[me].myAllocSize - ntree[me].myAllocSize
                     = ntree'[me].allocSize - ntree[me].allocSize
                /\ ntree'[me].fileCount = ntree[me].fileCount + 1
                /\ \A k \in DOMAIN ntree \ {me} : ntree'[k] = ntree[k]
       /\ AddsDir =>
            LET me == Last(stack').me
                sub == ntree[Last(stack).me]
            IN  /\ ntree'[me].size = ntree[me].size + sub.size
                /\ ntree'[me].allocSize = ntree[me].allocSize + sub.allocSize
                /\ ntree'[me].mySize = ntree[me].mySize
                /\ ntree'[me].myAllocSize = ntree[me].myAllocSize
                /\ ntree'[me].fileCount = ntree[me].fileCount
                /\ \A k \in DOMAIN ntree \ {me} : ntree'[k] = ntree[k]]_vars

\* the outermost call has returned over a root with files of its own whose
\* sub-directory holds a sub-directory with a file, sizes rounded up to the
\* allocation unit
C12_Witness ==
    /\ phase = "built"
    /\ gClusterSize # None
    /\ ntree[RootKey].mySize > 0
    /\ \E k \in Children(ntree, RootKey) :
          /\ ntree[k].mySize = 0
          /\ \E q \in Children(ntree, k) :
                /\ ntree[q].mySize > 0
                /\ ntree[q].allocSize > ntree[q].size
                /\ ntree[k].size = ntree[q].size
                /\ ntree[RootKey].size = ntree[RootKey].mySize + ntree[q].size

\* the lines ingested are well-formed records of pairwise distinct directories
\* at or below the root
DistinctRecords ==
    /\ \A i \in 1..Len(lines) :
          /\ FieldCount(lines[i]) = 8
          /\ UnderRoot(PathField(lines[i]))
          /\ \A n \in {1, 2, 3, 5, 7} : IsIntStr(Split(lines[i], Bar)[n])
    /\ \A i, j \in 1..Len(lines) :
          i # j => path_split(PathField(lines[i]), RootName)
                       # path_split(PathField(lines[j]), RootName)

\* the tree after AddFolder of each line of a sequence, in order
RECURSIVE Ingested(_, _)
Ingested(t, seq) ==
    IF seq = <<>> THEN t ELSE Ingested(AddFolder(t, Head(seq)).tree, Tail(seq))

Orders(n) == {f \in [1..n -> 1..n] : \A i, j \in 1..n : i # j => f[i] # f[j]}

\* the statistics of a node that the order of the records must not change
Statistics(n) ==
    <<n.myCount, n.mySize, n.myAlloc, n.totCount, n.totSize, n.totAlloc,
      n.totFold, n.maxFileSize>>

(***************************************************************************)
(* C13: for well-formed records with pairwise distinct paths under the     *)
(* root, every order of the AddFolder calls followed by one Accum() gives  *)
(* the same set of nodes and the same mySize/myAlloc/myCount, totSize/     *)
(* totAlloc/totCount/totFold and maxFileSize in each node; before Accum()  *)
(* runs, each node's totals equal its own statistics.                      *)
(***************************************************************************)
C13_OrderIndependent ==
    DistinctRecords =>
        /\ (accums = 0 /\ err = "") =>
              \A k \in DOMAIN tree :
                  /\ tree[k].totCount = tree[k].myCount
                  /\ tree[k].totSize = tree[k].mySize
                  /\ tree[k].totAlloc = tree[k].myAlloc
        /\ accums = 1 =>
              \A f \in Orders(Len(lines)) :
                  LET other == Accum(Ingested([k \in {RootKey} |-> NewTree(RootName)],
                                              [i \in 1..Len(lines) |-> lines[f[i]]]),
                                     RootKey)
                  IN  /\ DOMAIN other = DOMAIN tree
                      /\ \A k \in DOMAIN tree : Statistics(other[k]) = Statistics(tree[k])

\* three distinct records were ingested with a child's record before its
\* parent's, the parent having a second sub-node, and one pass has run
C13_Witness ==
    /\ accums = 1
    /\ DistinctRecords
    /\ Len(lines) = 3
    /\ PathField(lines[1]) = PathB
    /\ PathField(lines[2]) = PathC
    /\ PathField(lines[3]) = RootName
    /\ tree[RootKey].subnodes = <<<<"a">>, <<"c">>>>
    /\ tree[RootKey].totSize > tree[RootKey].mySize

(***************************************************************************)
(* C8: AddFolder skips a line whose number of bar-separated fields is not  *)
(* 8: no node is created or changed and no error reaches the loop.         *)
(***************************************************************************)
C8_MalformedSkipped ==
    [][(Ingests /\ FieldCount(Last(lines')) # 8) => (tree' = tree /\ err' = "")]_vars

(***************************************************************************)
(* C9: AddFolder of a line whose path is neither the root's name nor below *)
(* it fails with an error and leaves the tree as it was.                   *)
(***************************************************************************)
C9_OutsideRootRejected ==
    [][(Ingests /\ FieldCount(Last(lines')) = 8 /\ ~UnderRoot(PathField(Last(lines'))))
          => (err' # "" /\ tree' = tree)]_vars

(***************************************************************************)
(* C10: a second line for a path whose node already had its statistics set *)
(* by an earlier line is rejected, and every node keeps its statistics.    *)
(***************************************************************************)
C10_SetOnce ==
    [][(/\ Ingests
        /\ FieldCount(Last(lines')) = 8
        /\ \E i \in 1..Len(lines) :
              /\ FieldCount(lines[i]) = 8
              /\ PathField(lines[i]) = PathField(Last(lines')))
          => (err' # "" /\ \A k \in DOMAIN tree : tree'[k] = tree[k])]_vars

====
